---- MODULE Spec2Model ----
(***************************************************************************)
(* A model of k8s_user/main.py: one run of main(), which constructs a      *)
(* KubeConfig from the admin kubeconfig and calls generate_monitor_config. *)
(* Every call the script makes to the cluster (kubectl or the API client)  *)
(* is one step; the outcome of the call is chosen by the environment.      *)
(***************************************************************************)
EXTENDS Naturals, Sequences, FiniteSets, TLC

VARIABLES
    pc,               \* the statement of main.py the run has reached
    error,            \* the exception that ended the run ("" while none)
    monitor_user,     \* KubeConfig.monitor_user (--user)
    existing_role,    \* KubeConfig.existing_role (--role): None or Some(name)
    config_clusters,  \* len(config_data['clusters']) of the admin kubeconfig
    roles,            \* ClusterRoles of the cluster
    bindings,         \* ClusterRoleBindings of the cluster
    csrs,             \* CertificateSigningRequests of the cluster
    disk,             \* temporary files and directories of the run
    outfile,          \* the destination kubeconfig file (args.outfile)
    response,         \* response.status.certificate in approve_k8s_csr
    elapsed,          \* datetime.now() - start_timer, in seconds
    last_get,         \* result and return value of the last resource_exists
    log,              \* every cluster call and prompt of the run, in order
    start             \* the cluster and the destination file as the run began

vars == <<pc, error, monitor_user, existing_role, config_clusters, roles,
          bindings, csrs, disk, outfile, response, elapsed, last_get, log,
          start>>

-----------------------------------------------------------------------------
(* Bounds of the model *)

\* the largest number of cluster entries in the admin kubeconfig
MaxClusters == 2
\* a cap on the poll clock, beyond anything the loop of the code reaches
MaxElapsed == 320

(* Constants of the program *)

\* time.sleep(5)
PollInterval == 5
\* timedelta(seconds=300)
Deadline == 300

CLUSTER_USER == "qa-monitor"

-----------------------------------------------------------------------------
(* Values *)

\* Python's None for the optional strings, and a present value
None == <<>>
Some(s) == <<s>>

\* base64.b64encode / base64.b64decode
b64encode(data) == <<"b64", data>>
b64decode(text) == text[2]

\* the user names and the explicit role names a run is started with
Users == {CLUSTER_USER, "dev"}
RoleArgs == {None, Some("view")}

\* the answers typed at an overwrite prompt
Answers == {"y", "Y", "n", "yes", ""}

\* the admin kubeconfig's first cluster entry
cluster_name == "prod"
cluster_server == "https://prod:6443"
k8s_ca == b64encode("ca-pem")

-----------------------------------------------------------------------------
(* Identity naming *)

role_name ==
    IF existing_role = None THEN monitor_user \o "-role"
    ELSE existing_role[1]

role_binding_nameUserOnly == monitor_user \o "-" \o monitor_user \o "-role"

role_binding_name == monitor_user \o "-" \o role_name

cert_request_name == monitor_user \o "-cr"

-----------------------------------------------------------------------------
(* kubectl *)

\* a completed kubectl process: return code and the words of its stderr
Completed(rc, stderr) == [returncode |-> rc, stderr |-> stderr]
KubectlOk == Completed(0, <<>>)
KubectlNotFound == Completed(1, <<"Error", "from", "server", "NotFound">>)
KubectlFailed == Completed(1, <<"Unable", "to", "connect">>)

\* "NotFound" in error
HasNotFound(stderr) == \E i \in 1..Len(stderr) : stderr[i] = "NotFound"

\* what `kubectl get <type> <name>` can answer when the object is or is not there
KubectlGet(present) ==
    IF present THEN {KubectlOk, KubectlFailed}
    ELSE {KubectlNotFound, KubectlFailed}

\* what a mutating kubectl command can answer when the cluster can or cannot do it
KubectlRun(possible) ==
    IF possible THEN {KubectlOk, KubectlFailed} ELSE {KubectlFailed}

resource_existsLenient(result) ==
    IF result.returncode # 0 THEN "False" ELSE "True"

\* "True", "False", or "RuntimeError" when the function raises
resource_exists(result) ==
    IF result.returncode # 0
    THEN IF HasNotFound(result.stderr) THEN "False" ELSE "RuntimeError"
    ELSE "True"

Present(objects, name) == \E o \in objects : o.name = name
Without(objects, name) == {o \in objects : o.name # name}

\* one entry of the log
Ev(op, kind, arg) == [op |-> op, kind |-> kind, arg |-> arg]

AffirmativeAny(ans) == TRUE

AffirmativeWord(ans) == ans \in {"y", "Y", "yes"}

\* not (ans not in ("y", "Y"))
Affirmative(ans) == ans \in {"y", "Y"}

-----------------------------------------------------------------------------
(* Local files *)

TempDirPaths == {"temp_dir", "temp_dir/monitor.crt", "temp_dir/monitor.key"}
CaPath == "ca_file"

File(path, data) == [path |-> path, data |-> data]
Read(path) == (CHOOSE f \in disk : f.path = path).data
WriteFile(d, path, data) == {f \in d : f.path # path} \cup {File(path, data)}

TemporaryDirectoryKept(d) == d

\* leaving `with tempfile.TemporaryDirectory()`, normally or by an exception
TemporaryDirectoryCleanup(d) == {f \in d : f.path \notin TempDirPaths}

\* leaving `with tempfile.NamedTemporaryFile("wb")`
NamedTemporaryFileClose(d) == {f \in d : f.path # CaPath}

\* the destination file when it does not exist: kubectl starts from an empty config
NoFile == [exists |-> FALSE, clusters |-> {}, users |-> {}, contexts |-> {},
           current |-> ""]
\* a kubeconfig somebody left at the destination
OldFile ==
    [exists |-> TRUE,
     clusters |-> {[name |-> "staging", server |-> "https://staging:6443",
                    ca |-> b64encode("old-ca")]},
     users |-> {[name |-> "admin", cert |-> b64encode("admin-cert"),
                 key |-> b64encode("admin-key")]},
     contexts |-> {[name |-> "staging-admin", cluster |-> "staging",
                    user |-> "admin", namespace |-> "default"]},
     current |-> "staging-admin"]

-----------------------------------------------------------------------------
(* Cluster objects *)

\* DEFAULT_RULES, and some other rule set a role may have been given
DEFAULT_RULES == "list-get-watch"
Role(name, rules) == [name |-> name, rules |-> rules]
Binding(name, role, user) == [name |-> name, role |-> role, user |-> user]
Csr(name, request, approved, certificate) ==
    [name |-> name, request |-> request, approved |-> approved,
     certificate |-> certificate]

\* objects of other users, which are in the cluster throughout
OtherRoles == {Role("cluster-admin", "all")}
OtherBindings == {Binding("root-cluster-admin", "cluster-admin", "root")}

Terminal == {"done", "aborted", "failed"}

Init ==
    /\ pc = "init"
    /\ error = ""
    /\ monitor_user \in Users
    /\ existing_role \in RoleArgs
    /\ config_clusters \in 1..MaxClusters
    /\ roles \in {OtherRoles, OtherRoles \cup {Role(role_name, "custom")}}
    /\ bindings \in {OtherBindings,
                     OtherBindings \cup
                       {Binding(role_binding_name, "edit", "somebody")}}
    /\ csrs \in {{}, {Csr(cert_request_name, b64encode("old-request"), TRUE,
                          b64encode("old-cert"))}}
    /\ disk = {}
    /\ outfile \in {NoFile, OldFile}
    /\ response = None
    /\ elapsed = 0
    /\ last_get = [result |-> KubectlOk, ret |-> "none"]
    /\ log = <<>>
    /\ start = [roles |-> roles, bindings |-> bindings, csrs |-> csrs,
                outfile |-> outfile]

RaiseAndRetry(err) ==
    /\ pc' = IF pc = "init" THEN "failed" ELSE "check_binding"
    /\ error' = err
    /\ disk' = TemporaryDirectoryCleanup(NamedTemporaryFileClose(disk))

\* an exception leaves the run: every `with` block in scope is left on the way
Raise(err) ==
    /\ pc' = "failed"
    /\ error' = err
    /\ disk' = TemporaryDirectoryCleanup(NamedTemporaryFileClose(disk))

Inputs == <<monitor_user, existing_role, config_clusters, start>>
Cluster == <<roles, bindings, csrs>>
Poll == <<response, elapsed>>

-----------------------------------------------------------------------------
(* KubeConfig.__init__ *)

MultipleClustersLoose == config_clusters > 2

MultipleClusters == config_clusters > 1

Construct ==
    /\ pc = "init"
    /\ IF MultipleClusters
       THEN Raise("ConfigError")
       ELSE pc' = "check_binding" /\ UNCHANGED <<error, disk>>
    /\ UNCHANGED <<Inputs, Cluster, Poll, outfile, last_get, log>>

-----------------------------------------------------------------------------
(* generate_monitor_config: role and binding *)

\* run_kubectl: a non-zero return code raises
run_kubectl(result) == IF result.returncode # 0 THEN "RuntimeError" ELSE "ok"

CheckBinding ==
    /\ pc = "check_binding"
    /\ \E result \in KubectlGet(Present(bindings, role_binding_name)) :
         LET ret == resource_exists(result) IN
         /\ last_get' = [result |-> result, ret |-> ret]
         /\ IF ret = "RuntimeError" THEN Raise("UnexpectedQueryFailure")
            ELSE /\ pc' = IF ret = "True" THEN "ask_binding" ELSE "check_role"
                 /\ UNCHANGED <<error, disk>>
    /\ log' = Append(log, Ev("get", "clusterrolebinding", role_binding_name))
    /\ UNCHANGED <<Inputs, Cluster, Poll, outfile>>

AskBinding ==
    /\ pc = "ask_binding"
    /\ \E ans \in Answers :
         /\ log' = Append(log, Ev("input", "clusterrolebinding", ans))
         /\ pc' = IF Affirmative(ans) THEN "delete_binding" ELSE "aborted"
    /\ UNCHANGED <<error, Inputs, Cluster, Poll, disk, outfile, last_get>>

DeleteBinding ==
    /\ pc = "delete_binding"
    /\ \E result \in KubectlRun(Present(bindings, role_binding_name)) :
         IF run_kubectl(result) = "RuntimeError"
         THEN Raise("CommandFailure") /\ UNCHANGED bindings
         ELSE /\ bindings' = Without(bindings, role_binding_name)
              /\ pc' = "check_role"
              /\ UNCHANGED <<error, disk>>
    /\ log' = Append(log, Ev("delete", "clusterrolebinding", role_binding_name))
    /\ UNCHANGED <<Inputs, roles, csrs, Poll, outfile, last_get>>

AfterRoleCheckAlwaysAsk(role_exists) ==
    IF role_exists THEN "ask_role"
    ELSE IF existing_role # None /\ ~role_exists THEN "RoleNotFound"
    ELSE IF existing_role = None THEN "apply_role"
    ELSE "create_binding"

AfterRoleCheckNoDelete(role_exists) ==
    IF existing_role # None /\ ~role_exists THEN "RoleNotFound"
    ELSE IF existing_role = None THEN "apply_role"
    ELSE "create_binding"

AfterRoleCheckNoRaise(role_exists) ==
    IF role_exists /\ existing_role = None THEN "ask_role"
    ELSE IF existing_role = None THEN "apply_role"
    ELSE "create_binding"

\* where line 429-441 goes once role_exists is known
AfterRoleCheck(role_exists) ==
    IF role_exists /\ existing_role = None THEN "ask_role"
    ELSE IF existing_role # None /\ ~role_exists THEN "RoleNotFound"
    ELSE IF existing_role = None THEN "apply_role"
    ELSE "create_binding"

CheckRole ==
    /\ pc = "check_role"
    /\ \E result \in KubectlGet(Present(roles, role_name)) :
         LET ret == resource_exists(result)
             to == AfterRoleCheck(ret = "True") IN
         /\ last_get' = [result |-> result, ret |-> ret]
         /\ IF ret = "RuntimeError" THEN Raise("UnexpectedQueryFailure")
            ELSE IF to = "RoleNotFound" THEN Raise("RoleNotFound")
            ELSE pc' = to /\ UNCHANGED <<error, disk>>
    /\ log' = Append(log, Ev("get", "clusterrole", role_name))
    /\ UNCHANGED <<Inputs, Cluster, Poll, outfile>>

AskRole ==
    /\ pc = "ask_role"
    /\ \E ans \in Answers :
         /\ log' = Append(log, Ev("input", "clusterrole", ans))
         /\ pc' = IF Affirmative(ans) THEN "delete_role" ELSE "aborted"
    /\ UNCHANGED <<error, Inputs, Cluster, Poll, disk, outfile, last_get>>

DeleteRole ==
    /\ pc = "delete_role"
    /\ \E result \in KubectlRun(Present(roles, role_name)) :
         IF run_kubectl(result) = "RuntimeError"
         THEN Raise("CommandFailure") /\ UNCHANGED roles
         ELSE /\ roles' = Without(roles, role_name)
              /\ pc' = "apply_role"
              /\ UNCHANGED <<error, disk>>
    /\ log' = Append(log, Ev("delete", "clusterrole", role_name))
    /\ UNCHANGED <<Inputs, bindings, csrs, Poll, outfile, last_get>>

\* utils.create_from_dict: the API creates the object, or raises (as it does
\* when an object of that name exists)
ApiCreate(possible) == IF possible THEN {"created", "error"} ELSE {"error"}

\* apply_cluster_role with rules=None
ApplyRole ==
    /\ pc = "apply_role"
    /\ \E outcome \in ApiCreate(~Present(roles, role_name)) :
         IF outcome = "error"
         THEN Raise("ApiError") /\ UNCHANGED roles
         ELSE /\ roles' = roles \cup {Role(role_name, DEFAULT_RULES)}
              /\ pc' = "create_binding"
              /\ UNCHANGED <<error, disk>>
    /\ log' = Append(log, Ev("create", "clusterrole", role_name))
    /\ UNCHANGED <<Inputs, bindings, csrs, Poll, outfile, last_get>>

\* create_role_binding, then the temporary directory of line 446 is made
CreateBinding ==
    /\ pc = "create_binding"
    /\ \E result \in KubectlRun(~Present(bindings, role_binding_name)) :
         IF run_kubectl(result) = "RuntimeError"
         THEN Raise("CommandFailure") /\ UNCHANGED bindings
         ELSE /\ bindings' = bindings \cup
                    {Binding(role_binding_name, role_name, monitor_user)}
              /\ pc' = "check_csr"
              /\ disk' = WriteFile(disk, "temp_dir", "")
              /\ UNCHANGED error
    /\ log' = Append(log, Ev("create", "clusterrolebinding", role_binding_name))
    /\ UNCHANGED <<Inputs, roles, csrs, Poll, outfile, last_get>>

-----------------------------------------------------------------------------
(* generate_and_approve_cert *)

\* generate_csr: the PEM request with CN = monitor_user, and the private key
CsrPem == "csr:" \o monitor_user
KeyPem == "key:" \o monitor_user

CheckCsrNoDelete ==
    /\ pc = "check_csr"
    /\ \E result \in KubectlGet(Present(csrs, cert_request_name)) :
         LET ret == resource_exists(result) IN
         /\ last_get' = [result |-> result, ret |-> ret]
         /\ IF ret = "RuntimeError" THEN Raise("UnexpectedQueryFailure")
            ELSE pc' = "generate_csr" /\ UNCHANGED <<error, disk>>
    /\ log' = Append(log, Ev("get", "csr", cert_request_name))
    /\ UNCHANGED <<Inputs, Cluster, Poll, outfile>>

CheckCsr ==
    /\ pc = "check_csr"
    /\ \E result \in KubectlGet(Present(csrs, cert_request_name)) :
         LET ret == resource_exists(result) IN
         /\ last_get' = [result |-> result, ret |-> ret]
         /\ IF ret = "RuntimeError" THEN Raise("UnexpectedQueryFailure")
            ELSE /\ pc' = IF ret = "True" THEN "delete_csr" ELSE "generate_csr"
                 /\ UNCHANGED <<error, disk>>
    /\ log' = Append(log, Ev("get", "csr", cert_request_name))
    /\ UNCHANGED <<Inputs, Cluster, Poll, outfile>>

DeleteCsr ==
    /\ pc = "delete_csr"
    /\ \E result \in KubectlRun(Present(csrs, cert_request_name)) :
         IF run_kubectl(result) = "RuntimeError"
         THEN Raise("CommandFailure") /\ UNCHANGED csrs
         ELSE /\ csrs' = Without(csrs, cert_request_name)
              /\ pc' = "generate_csr"
              /\ UNCHANGED <<error, disk>>
    /\ log' = Append(log, Ev("delete", "csr", cert_request_name))
    /\ UNCHANGED <<Inputs, roles, bindings, Poll, outfile, last_get>>

\* generate_csr and the write of the key file
GenerateCsr ==
    /\ pc = "generate_csr"
    /\ disk' = WriteFile(disk, "temp_dir/monitor.key", KeyPem)
    /\ pc' = "submit_csr"
    /\ UNCHANGED <<error, Inputs, Cluster, Poll, outfile, last_get, log>>

\* apply_dict_to_k8s(cert_request): as ApiCreate, or the call returns and the
\* object is not there to be listed (what verify_cert_request guards against)
ApiCreateCsr(possible) ==
    IF possible THEN {"created", "unseen", "error"} ELSE {"error"}

SubmitCsr ==
    /\ pc = "submit_csr"
    /\ \E outcome \in ApiCreateCsr(~Present(csrs, cert_request_name)) :
         IF outcome = "error"
         THEN Raise("ApiError") /\ UNCHANGED csrs
         ELSE /\ csrs' = IF outcome = "created"
                         THEN csrs \cup {Csr(cert_request_name,
                                             b64encode(CsrPem), FALSE, None)}
                         ELSE csrs
              /\ pc' = "verify_csr"
              /\ UNCHANGED <<error, disk>>
    /\ log' = Append(log, Ev("create", "csr", cert_request_name))
    /\ UNCHANGED <<Inputs, roles, bindings, Poll, outfile, last_get>>

VerifyCsrUnchecked ==
    /\ pc = "verify_csr"
    /\ \E result \in KubectlRun(TRUE) :
         IF run_kubectl(result) = "RuntimeError" THEN Raise("CommandFailure")
         ELSE pc' = "approve_csr" /\ UNCHANGED <<error, disk>>
    /\ log' = Append(log, Ev("list", "csr", cert_request_name))
    /\ UNCHANGED <<Inputs, Cluster, Poll, outfile, last_get>>

\* verify_cert_request
VerifyCsr ==
    /\ pc = "verify_csr"
    /\ \E result \in KubectlRun(TRUE) :
         IF run_kubectl(result) = "RuntimeError" THEN Raise("CommandFailure")
         ELSE IF ~Present(csrs, cert_request_name) THEN Raise("CSRNotFound")
         ELSE pc' = "approve_csr" /\ UNCHANGED <<error, disk>>
    /\ log' = Append(log, Ev("list", "csr", cert_request_name))
    /\ UNCHANGED <<Inputs, Cluster, Poll, outfile, last_get>>

TheCsr == CHOOSE c \in csrs : c.name = cert_request_name

\* approve_k8s_csr up to start_timer: read the status, put the approval
ApproveCsr ==
    /\ pc = "approve_csr"
    /\ \E outcome \in IF Present(csrs, cert_request_name)
                      THEN {"read_error", "approve_error", "approved"}
                      ELSE {"read_error"} :
         /\ log' = IF outcome = "read_error"
                   THEN Append(log, Ev("read_status", "csr", cert_request_name))
                   ELSE log \o <<Ev("read_status", "csr", cert_request_name),
                                 Ev("approve", "csr", cert_request_name)>>
         /\ IF outcome = "approved"
            THEN /\ csrs' = Without(csrs, cert_request_name) \cup
                       {[TheCsr EXCEPT !.approved = TRUE]}
                 /\ response' = TheCsr.certificate
                 /\ elapsed' = 0
                 /\ pc' = "poll"
                 /\ UNCHANGED <<error, disk>>
            ELSE Raise("ApiError") /\ UNCHANGED <<csrs, Poll>>
    /\ UNCHANGED <<Inputs, roles, bindings, outfile, last_get>>

\* the cluster's signer issues the certificate of an approved request
ControllerSigns ==
    /\ pc \notin Terminal
    /\ \E c \in csrs :
         /\ c.approved /\ c.certificate = None
         /\ csrs' = (csrs \ {c}) \cup
              {[c EXCEPT !.certificate = b64encode("signed:" \o b64decode(c.request))]}
    /\ UNCHANGED <<pc, error, Inputs, roles, bindings, disk, outfile, Poll,
                   last_get, log>>

TimedOutNever(t) == FALSE

TimedOutLate(t) == t > Deadline + PollInterval

\* datetime.now() - start_timer > timedelta(seconds=300)
TimedOut(t) == t > Deadline

\* one turn of the while loop: sleep, test the deadline, read the status
PollSleep ==
    /\ pc = "poll"
    /\ response = None
    /\ elapsed <= MaxElapsed
    /\ elapsed' = elapsed + PollInterval
    /\ IF TimedOut(elapsed')
       THEN Raise("CertificateTimeout") /\ UNCHANGED <<response, log>>
       ELSE /\ log' = Append(log, Ev("read_status", "csr", cert_request_name))
            /\ \E outcome \in IF Present(csrs, cert_request_name)
                              THEN {"read", "read_error"} ELSE {"read_error"} :
                 IF outcome = "read_error"
                 THEN Raise("ApiError") /\ UNCHANGED response
                 ELSE /\ response' = TheCsr.certificate
                      /\ UNCHANGED <<pc, error, disk>>
    /\ UNCHANGED <<Inputs, Cluster, outfile, last_get>>

PollExitUnsigned ==
    /\ pc = "poll"
    /\ disk' = WriteFile(disk, "temp_dir/monitor.crt",
                         IF response = None THEN "" ELSE b64decode(response))
    /\ pc' = "write_ca"
    /\ UNCHANGED <<error, Inputs, Cluster, Poll, outfile, last_get, log>>

\* the loop ends: decode the certificate, return it, write monitor.crt
PollExit ==
    /\ pc = "poll"
    /\ response # None
    /\ disk' = WriteFile(disk, "temp_dir/monitor.crt", b64decode(response))
    /\ pc' = "write_ca"
    /\ UNCHANGED <<error, Inputs, Cluster, Poll, outfile, last_get, log>>

-----------------------------------------------------------------------------
(* create_new_kubeconfig *)

\* kubectl config set-...: the named entry of the file is set, the rest is kept
SetEntry(entries, e) == {x \in entries : x.name # e.name} \cup {e}

context_name == cluster_name \o "-" \o monitor_user

WriteCa ==
    /\ pc = "write_ca"
    /\ disk' = WriteFile(disk, CaPath, b64decode(k8s_ca))
    /\ pc' = "set_cluster"
    /\ UNCHANGED <<error, Inputs, Cluster, Poll, outfile, last_get, log>>

SetCluster ==
    /\ pc = "set_cluster"
    /\ \E result \in KubectlRun(TRUE) :
         IF run_kubectl(result) = "RuntimeError"
         THEN Raise("CommandFailure") /\ UNCHANGED outfile
         ELSE /\ outfile' = [outfile EXCEPT
                   !.exists = TRUE,
                   !.clusters = SetEntry(@, [name |-> cluster_name,
                                             server |-> cluster_server,
                                             ca |-> b64encode(Read(CaPath))])]
              /\ disk' = NamedTemporaryFileClose(disk)
              /\ pc' = "set_credentials"
              /\ UNCHANGED error
    /\ log' = Append(log, Ev("config", "set-cluster", cluster_name))
    /\ UNCHANGED <<Inputs, Cluster, Poll, last_get>>

SetCredentials ==
    /\ pc = "set_credentials"
    /\ \E result \in KubectlRun(TRUE) :
         IF run_kubectl(result) = "RuntimeError"
         THEN Raise("CommandFailure") /\ UNCHANGED outfile
         ELSE /\ outfile' = [outfile EXCEPT
                   !.users = SetEntry(@,
                       [name |-> monitor_user,
                        cert |-> b64encode(Read("temp_dir/monitor.crt")),
                        key |-> b64encode(Read("temp_dir/monitor.key"))])]
              /\ pc' = "set_context"
              /\ UNCHANGED <<error, disk>>
    /\ log' = Append(log, Ev("config", "set-credentials", monitor_user))
    /\ UNCHANGED <<Inputs, Cluster, Poll, last_get>>

SetContext ==
    /\ pc = "set_context"
    /\ \E result \in KubectlRun(TRUE) :
         IF run_kubectl(result) = "RuntimeError"
         THEN Raise("CommandFailure") /\ UNCHANGED outfile
         ELSE /\ outfile' = [outfile EXCEPT
                   !.contexts = SetEntry(@, [name |-> context_name,
                                             cluster |-> cluster_name,
                                             user |-> monitor_user,
                                             namespace |-> "default"])]
              /\ pc' = "use_context"
              /\ UNCHANGED <<error, disk>>
    /\ log' = Append(log, Ev("config", "set-context", context_name))
    /\ UNCHANGED <<Inputs, Cluster, Poll, last_get>>

\* use-context, after which generate_monitor_config leaves its `with` and returns
UseContext ==
    /\ pc = "use_context"
    /\ \E result \in KubectlRun(Present(outfile.contexts, context_name)) :
         IF run_kubectl(result) = "RuntimeError"
         THEN Raise("CommandFailure") /\ UNCHANGED outfile
         ELSE /\ outfile' = [outfile EXCEPT !.current = context_name]
              /\ disk' = TemporaryDirectoryCleanup(disk)
              /\ pc' = "done"
              /\ UNCHANGED error
    /\ log' = Append(log, Ev("config", "use-context", context_name))
    /\ UNCHANGED <<Inputs, Cluster, Poll, last_get>>

-----------------------------------------------------------------------------
Next ==
    \/ Construct
    \/ CheckBinding
    \/ AskBinding
    \/ DeleteBinding
    \/ CheckRole
    \/ AskRole
    \/ DeleteRole
    \/ ApplyRole
    \/ CreateBinding
    \/ CheckCsr
    \/ DeleteCsr
    \/ GenerateCsr
    \/ SubmitCsr
    \/ VerifyCsr
    \/ ApproveCsr
    \/ ControllerSigns
    \/ PollSleep
    \/ PollExit
    \/ WriteCa
    \/ SetCluster
    \/ SetCredentials
    \/ SetContext
    \/ UseContext

Spec == Init /\ [][Next]_vars

\* every sleep and every status read of the poll loop returns
LiveSpec == Spec /\ WF_vars(PollSleep) /\ WF_vars(PollExit)

-----------------------------------------------------------------------------
(* What the claims speak of *)

Events == 1..Len(log)
Issued(op, kind) == \E i \in Events : log[i].op = op /\ log[i].kind = kind
Declined(i) == log[i].op = "input" /\ log[i].arg \notin {"y", "Y"}
Confirmed(i, kind) ==
    /\ i \in Events
    /\ log[i].op = "input" /\ log[i].kind = kind /\ log[i].arg \in {"y", "Y"}
ClusterCalls == {"get", "delete", "create", "list", "read_status", "approve"}
CsrStarted == \E i \in Events : log[i].kind = "csr"
ExplicitRoleMissing ==
    existing_role # None /\ ~Present(start.roles, existing_role[1])
\* the run was ended by its environment: a bad admin kubeconfig, a failed command
EnvironmentFailed ==
    /\ pc = "failed"
    /\ error \in {"ConfigError", "UnexpectedQueryFailure", "CommandFailure", "ApiError"}

\* C1: a run that ends at a declined overwrite prompt ends with the roles and
\* the bindings of the cluster as they were when it started.
C1_DeclineLeavesRbac ==
    pc = "aborted" => roles = start.roles /\ bindings = start.bindings

\* C2: a declined prompt is the last thing the run does: it ends there, having
\* created no role or binding, touched no CSR, polled nothing and left the
\* destination file alone, and nothing changes afterwards.
C2_DeclineIsLast ==
    \A i \in Events : Declined(i) =>
        /\ i = Len(log) /\ pc = "aborted" /\ error = ""
        /\ ~(\E j \in Events : log[j].op = "create")
        /\ ~CsrStarted
        /\ csrs = start.csrs /\ outfile = start.outfile /\ disk = {}

C2_DeclineStops ==
    /\ []C2_DeclineIsLast
    /\ [][pc = "aborted" => UNCHANGED <<roles, bindings, csrs, outfile, disk, log>>]_vars

C2_Witness ==
    /\ pc = "aborted" /\ Len(log) > 0 /\ Declined(Len(log))
    /\ log[Len(log)].kind = "clusterrole"
    /\ Issued("delete", "clusterrolebinding")

C4_NeverSigned ==
    /\ Issued("approve", "csr") /\ Present(csrs, cert_request_name)
    /\ TheCsr.certificate = None
C4_PollEnds ==
    /\ (pc = "poll") ~> (pc # "poll")
    /\ [][(pc = "poll" /\ pc' = "write_ca") => response # None]_vars
    /\ []((pc \in Terminal /\ C4_NeverSigned /\ error # "ApiError")
            => (pc = "failed" /\ error = "CertificateTimeout"
                /\ outfile = start.outfile))

C4_Witness ==
    /\ pc = "failed" /\ error = "CertificateTimeout" /\ C4_NeverSigned
    /\ elapsed > Deadline

\* C5: after a successful run the destination holds exactly the source
\* cluster, the issued user and one context, which is current, whatever the
\* file held before.
TheClusterEntry ==
    [name |-> cluster_name, server |-> cluster_server, ca |-> k8s_ca]
TheUserEntry ==
    [name |-> monitor_user, cert |-> TheCsr.certificate, key |-> b64encode(KeyPem)]
TheContextEntry ==
    [name |-> context_name, cluster |-> cluster_name, user |-> monitor_user,
     namespace |-> "default"]
C5_FreshKubeconfig ==
    pc = "done" =>
        /\ outfile.exists
        /\ outfile.clusters = {TheClusterEntry}
        /\ outfile.users = {TheUserEntry}
        /\ outfile.contexts = {TheContextEntry}
        /\ outfile.current = context_name

\* C6: in every state in which the run has ended, by success, by a declined
\* prompt or by any exception, no temporary file or directory is on disk.
C6_NoTempFilesLeft == pc \in Terminal => disk = {}

C6_Witness ==
    /\ pc = "failed" /\ error = "CommandFailure" /\ disk = {}
    /\ log[Len(log)].kind = "set-credentials"

\* C7: with more than one cluster entry in the admin kubeconfig the run ends
\* in ConfigError with no call made to the cluster and the cluster unchanged.
C7_MultiClusterFailsFirst ==
    config_clusters > 1 =>
        /\ log = <<>>
        /\ roles = start.roles /\ bindings = start.bindings /\ csrs = start.csrs
        /\ outfile = start.outfile
        /\ pc = "init" \/ (pc = "failed" /\ error = "ConfigError")

C7_Witness == config_clusters > 1 /\ pc = "failed" /\ error = "ConfigError"

\* C8: resource_exists returns True exactly for return code 0, False exactly
\* for a failure whose stderr has "NotFound", raises otherwise; a raise ends
\* the run in every caller; the call changes nothing in the cluster.
C8_ThreeOutcomes ==
    last_get.ret # "none" =>
        /\ last_get.ret \in {"True", "False", "RuntimeError"}
        /\ last_get.ret = "True" <=> last_get.result.returncode = 0
        /\ last_get.ret = "False" <=>
             (last_get.result.returncode # 0 /\ HasNotFound(last_get.result.stderr))
        /\ last_get.ret = "RuntimeError" =>
             (pc = "failed" /\ error = "UnexpectedQueryFailure"
              /\ log[Len(log)].op = "get")
C8_ResourceExists ==
    /\ []C8_ThreeOutcomes
    /\ [][(Len(log') > Len(log) /\ log'[Len(log')].op = "get")
            => UNCHANGED <<roles, bindings, csrs>>]_vars

C8_Witness ==
    /\ last_get.ret = "RuntimeError" /\ pc = "failed"
    /\ log[Len(log)] = Ev("get", "csr", cert_request_name)

\* C9: every name the run uses is the one derived from the user and the
\* explicit role: role <user>-role or the explicit role, binding
\* <user>-<role name>, CSR <user>-cr whatever the role.
C9_RoleName ==
    IF existing_role = None THEN monitor_user \o "-role" ELSE existing_role[1]
C9_BindingName ==
    IF existing_role = None THEN monitor_user \o "-" \o monitor_user \o "-role"
    ELSE monitor_user \o "-" \o existing_role[1]
C9_Names ==
    /\ \A i \in Events : log[i].op \in ClusterCalls =>
         /\ log[i].kind = "clusterrole" => log[i].arg = C9_RoleName
         /\ log[i].kind = "clusterrolebinding" => log[i].arg = C9_BindingName
         /\ log[i].kind = "csr" => log[i].arg = monitor_user \o "-cr"
    /\ \A b \in bindings \ start.bindings :
         b = Binding(C9_BindingName, C9_RoleName, monitor_user)
    /\ \A r \in roles \ start.roles : r.name = C9_RoleName
    /\ \A c \in csrs \ start.csrs : c.name = monitor_user \o "-cr"

C9_Witness ==
    /\ pc = "done" /\ existing_role # None
    /\ Issued("create", "clusterrolebinding") /\ Issued("create", "csr")

C11_RoleNotFoundBeforeAnyChange ==
    (pc = "failed" /\ error = "RoleNotFound")
        => (roles = start.roles /\ bindings = start.bindings /\ csrs = start.csrs)

\* the status reads of the poll loop: those made after the approval was put
PollReads ==
    Cardinality({i \in Events :
        /\ log[i].op = "read_status"
        /\ \E j \in 1..(i - 1) : log[j].op = "approve"})
MaxPollReads == Deadline \div PollInterval

\* C12 as written: with time advanced by the sleeps alone, the loop has
\* returned or raised by 300 seconds after the timer was started.
C12_EndsWithin300 == elapsed <= Deadline

\* C12 amended: the loop returns the certificate by 300 seconds, raises
\* CertificateTimeout at 305 seconds, the first tick past the deadline, and
\* makes at most 300/5 = 60 status reads.
C12_PollDeadline ==
    /\ elapsed <= Deadline + PollInterval
    /\ PollReads <= MaxPollReads
    /\ (pc = "poll" \/ error = "CertificateTimeout") => elapsed % PollInterval = 0
    /\ pc = "poll" => (elapsed <= Deadline /\ PollReads * PollInterval = elapsed)
    /\ pc \in {"write_ca", "set_cluster", "set_credentials", "set_context",
               "use_context", "done"} => elapsed <= Deadline
    /\ error = "CertificateTimeout" =>
         (elapsed = Deadline + PollInterval /\ PollReads = MaxPollReads)

C12_Witness ==
    /\ pc = "failed" /\ error = "CertificateTimeout"
    /\ PollReads = MaxPollReads /\ elapsed = Deadline + PollInterval

\* C13: the calls on the CSR come in the order submit, verify, approve, poll,
\* and the status is read and the approval put only for a CSR that the
\* verification saw; a run that ends in CSRNotFound has put no approval, read
\* no status, written no certificate and left the destination file alone.
C13_ApproveAfterVerify ==
    /\ \A i \in Events : log[i].op = "approve" =>
         /\ i > 3
         /\ log[i - 1] = Ev("read_status", "csr", cert_request_name)
         /\ log[i - 2] = Ev("list", "csr", cert_request_name)
         /\ log[i - 3] = Ev("create", "csr", cert_request_name)
         /\ \A j \in Events : log[j].op = "read_status" => j >= i - 1
    /\ Issued("read_status", "csr") =>
         (Issued("list", "csr") /\ Present(csrs, cert_request_name))
    /\ pc \in {"approve_csr", "poll"} => Present(csrs, cert_request_name)
    /\ error = "CSRNotFound" =>
         /\ pc = "failed"
         /\ log[Len(log)] = Ev("list", "csr", cert_request_name)
         /\ ~Present(csrs, cert_request_name)
         /\ ~Issued("approve", "csr") /\ ~Issued("read_status", "csr")
         /\ ~(\E i \in Events : log[i].op = "config")
         /\ response = None /\ disk = {} /\ outfile = start.outfile

C13_Witness ==
    /\ pc = "failed" /\ error = "CSRNotFound"
    /\ Issued("create", "csr") /\ ~Issued("approve", "csr")

\* C14: a CSR found under the run's CSR name is deleted straight after the
\* lookup, with no prompt; when the new CSR is submitted none of that name is
\* in the cluster; the run prompts only about the binding and the role.
C14_CsrReplacedUnprompted ==
    /\ \A i \in Events : log[i].op = "input" =>
         log[i].kind \in {"clusterrolebinding", "clusterrole"}
    /\ \A i \in Events : (log[i].op = "delete" /\ log[i].kind = "csr") =>
         (i > 1 /\ log[i - 1] = Ev("get", "csr", cert_request_name))
    /\ pc = "submit_csr" => ~Present(csrs, cert_request_name)
    /\ \A i \in Events : (log[i].op = "create" /\ log[i].kind = "csr") =>
         /\ start.csrs \cap csrs = {}
         /\ Present(start.csrs, cert_request_name) =>
              \E j \in 1..(i - 1) : log[j] = Ev("delete", "csr", cert_request_name)

C14_Witness ==
    /\ pc = "submit_csr" /\ Present(start.csrs, cert_request_name)
    /\ Issued("delete", "csr") /\ ~Present(csrs, cert_request_name)
    /\ ~(\E i \in Events : log[i].op = "input")

\* C15: with an explicit role the run never creates, deletes or changes a
\* ClusterRole and never asks about one; the only RBAC object it creates is
\* the binding of the user to the named role, and only when that role exists.
C15_ExplicitRoleUntouched ==
    existing_role # None =>
        /\ roles = start.roles
        /\ \A i \in Events : log[i].kind = "clusterrole" =>
             log[i] = Ev("get", "clusterrole", existing_role[1])
        /\ pc \notin {"ask_role", "delete_role", "apply_role"}
        /\ bindings \ start.bindings \subseteq
             {Binding(monitor_user \o "-" \o existing_role[1], existing_role[1],
                      monitor_user)}
        /\ bindings \ start.bindings # {} => Present(start.roles, existing_role[1])
        /\ \A i \in Events : log[i].op = "create" =>
             (log[i].kind \in {"clusterrolebinding", "csr"}
              /\ Present(start.roles, existing_role[1]))

C15_Witness ==
    /\ existing_role # None /\ pc = "check_csr"
    /\ Present(start.roles, existing_role[1])
    /\ Present(start.bindings, role_binding_name)
    /\ Binding(role_binding_name, existing_role[1], monitor_user) \in bindings
    /\ roles = start.roles

\* C16: the destination file differs from what it was only after a status
\* read showed the CSR's certificate and that certificate was written beside
\* the key; it is as it was in every run that ends at a declined prompt, in
\* CSRNotFound, in CertificateTimeout or in any failure before the assembly.
AssemblyStarted == \E i \in Events : log[i].op = "config"
C16_OutfileOnlyFromSignedCert ==
    /\ outfile # start.outfile =>
         /\ AssemblyStarted
         /\ response # None /\ Present(csrs, cert_request_name)
         /\ response = TheCsr.certificate /\ TheCsr.approved
         /\ \A u \in outfile.users \ start.outfile.users :
              u = [name |-> monitor_user, cert |-> response,
                   key |-> b64encode(KeyPem)]
         /\ pc \notin Terminal =>
              {File("temp_dir/monitor.crt", b64decode(response)),
               File("temp_dir/monitor.key", KeyPem)} \subseteq disk
    /\ AssemblyStarted => response # None
    /\ (pc \in Terminal /\ pc # "done" /\ outfile # start.outfile) =>
         (error = "CommandFailure" /\ log[Len(log)].op = "config")
    /\ (pc = "aborted" \/ error \in {"ConfigError", "RoleNotFound",
                                     "UnexpectedQueryFailure", "ApiError",
                                     "CSRNotFound", "CertificateTimeout"})
         => outfile = start.outfile

C16_Witness ==
    /\ pc = "set_credentials" /\ outfile # start.outfile
    /\ start.outfile = NoFile /\ response # None

\* C17: a create is issued only for a name that is not in the cluster, so no
\* create fails on an existing object, and a run with affirmative answers and
\* no failing command ends, from any prior state of the cluster, with the
\* role, the binding and the CSR of its names present, each the fresh one.
AllAffirmative == \A i \in Events : log[i].op = "input" => log[i].arg \in {"y", "Y"}
C17_CreateOnlyAbsent ==
    /\ pc = "apply_role" => ~Present(roles, role_name)
    /\ pc = "create_binding" => ~Present(bindings, role_binding_name)
    /\ pc = "submit_csr" => ~Present(csrs, cert_request_name)
    /\ \A i \in Events : log[i].op = "create" =>
         /\ \A j \in Events : (log[j].op = "create" /\ log[j].kind = log[i].kind) => j = i
         /\ Present(start[IF log[i].kind = "clusterrole" THEN "roles"
                          ELSE IF log[i].kind = "csr" THEN "csrs" ELSE "bindings"],
                    log[i].arg)
              => \E j \in 1..(i - 1) : log[j] = Ev("delete", log[i].kind, log[i].arg)
    /\ (pc \in Terminal /\ AllAffirmative /\ ~EnvironmentFailed /\ ~ExplicitRoleMissing
        /\ error \notin {"CSRNotFound", "CertificateTimeout"}) => pc = "done"
    /\ pc = "done" =>
         /\ AllAffirmative
         /\ Present(roles, role_name)
         /\ {b.name : b \in bindings} =
              {b.name : b \in start.bindings} \cup {role_binding_name}
         /\ {r.name : r \in roles} = {r.name : r \in start.roles} \cup {role_name}
         /\ {c.name : c \in csrs} = {cert_request_name}
         /\ bindings \cap start.bindings = OtherBindings
         /\ csrs \cap start.csrs = {}

C17_Witness ==
    /\ pc = "done" /\ existing_role = None
    /\ Present(start.roles, role_name) /\ Present(start.bindings, role_binding_name)
    /\ Present(start.csrs, cert_request_name)
    /\ Issued("create", "clusterrole") /\ Issued("create", "clusterrolebinding")
    /\ Issued("create", "csr")

\* C18: an exception ends the run where it is: no call follows it, no call is
\* made twice, nothing created is deleted again; after a failure in the
\* certificate or the kubeconfig steps the binding (and role) the run made
\* are in the cluster, and so is the CSR once it was seen there.
C18_FailedIsFinal ==
    /\ error # "" <=> pc = "failed"
    /\ \A i, j \in Events :
         (log[i] = log[j] /\ log[i].op \in {"get", "delete", "create", "list", "approve", "config"})
            => i = j
    /\ \A i, j \in Events :
         (i < j /\ log[i].op = "create" /\ log[j].op = "delete")
            => log[i].kind # log[j].kind
    /\ (pc = "failed" /\ CsrStarted) =>
         /\ Binding(role_binding_name, role_name, monitor_user) \in bindings
         /\ existing_role = None => Role(role_name, DEFAULT_RULES) \in roles
         /\ Present(roles, role_name)
         /\ (Issued("approve", "csr") \/ error = "CertificateTimeout")
              => (Present(csrs, cert_request_name)
                  /\ TheCsr.request = b64encode(CsrPem))
         /\ error = "CertificateTimeout" => TheCsr.approved
C18_NoRetryNoRollback ==
    /\ []C18_FailedIsFinal
    /\ [][pc = "failed" =>
            UNCHANGED <<pc, error, roles, bindings, csrs, outfile, log>>]_vars

C18_Witness ==
    /\ pc = "failed" /\ error = "CommandFailure"
    /\ log[Len(log)].kind = "set-cluster"
    /\ Binding(role_binding_name, role_name, monitor_user) \in bindings
    /\ Role(role_name, DEFAULT_RULES) \in roles
    /\ Present(csrs, cert_request_name) /\ TheCsr.certificate # None
====
